---- MODULE Spec2Model ----
(***************************************************************************)
(* Model of the `Generic` derive (generics_derive/src/lib.rs), of the      *)
(* primitive registry (src/prim.rs) and of the code the derive generates.  *)
(*                                                                         *)
(* The derive is a pure function from a parsed type definition to an impl  *)
(* (or a panic).  The generated impl is kept as data (patterns, statements *)
(* and expressions over named bindings) and is run by an interpreter that  *)
(* follows Rust's rules for struct patterns, let-shadowing and trait       *)
(* dispatch, so that the laws about into_repr / from_repr are checked on   *)
(* what the generated code does.                                           *)
(***************************************************************************)
EXTENDS Integers, Sequences, FiniteSets, TLC

VARIABLES input, output, pc, x, cur, repr, r0, trips, sum

vars == <<input, output, pc, x, cur, repr, r0, trips, sum>>

(* ------------------------------ bounds --------------------------------- *)

\* largest number of fields of the struct under derivation
MaxFields == 3

\* largest number of from_repr calls in one run
MaxTrips == 1

(* --------------------------- small helpers ----------------------------- *)

None == <<>>

Some(v) == <<v>>

Range(s) == {s[i] : i \in 1..Len(s)}

\* decimal rendering of a small index (LitInt::new(i, ..) and "{}" of i)
DecStr(i) == <<"0", "1", "2", "3", "4", "5", "6", "7", "8", "9">>[i + 1]

\* format!("_{}", i)
UnderscoreStr(i) == <<"_0", "_1", "_2", "_3", "_4", "_5", "_6", "_7", "_8", "_9">>[i + 1]

(* ----------------------- representation vocabulary --------------------- *)

\* pub struct Unit;
Unit == [k |-> "Unit"]

\* pub struct Prod<A, B>(pub A, pub B);
Prod(a, b) == [k |-> "Prod", a |-> a, b |-> b]

\* the associated-type projection <field_ty as ::generics::Generic>::Repr
ReprOf(field_ty) == [k |-> "Repr", of |-> field_ty]

\* a raw type used as a leaf
RawTy(field_ty) == [k |-> "Ty", of |-> field_ty]

\* a binding used in a pattern or an expression
Var(id) == [k |-> "Var", id |-> id]

\* a value of a primitive type
Prim(ty, v) == [k |-> "Prim", ty |-> ty, v |-> v]

\* a value of a struct type: its fields by accessor
Struct(ty, f) == [k |-> "Struct", ty |-> ty, f |-> f]

(* -------------------------- primitive registry ------------------------- *)

\* impl_identity!( u8, u16, u32, u64, u128, i8, i16, i32, i64, i128 )
PrimTypes == {"u8", "u16", "u32", "u64", "u128", "i8", "i16", "i32", "i64", "i128"}

prim_into_repr_mut(self) == [self EXCEPT !.v = 0]

\* fn into_repr(self: Self) -> Self::Repr { self }
prim_into_repr(self) == self

\* fn from_repr(repr: Self::Repr) -> Self { repr }
prim_from_repr(r) == r

\* type Repr = $ty;
prim_Repr(ty) == RawTy(ty)

(* ------------------------------ the derive ----------------------------- *)

\* a field of the parsed struct: ident is None for a positional field
Field(ident, ty) == [ident |-> ident, ty |-> ty]

\* a where-predicate `ty : bound`
Predicate(ty, bound) == [ty |-> ty, bound |-> bound]

RECURSIVE FoldTy(_, _)
FoldTy(fields, n) ==
    IF n = 0 THEN Unit
    ELSE Prod(FoldTy(fields, n - 1), ReprOf(fields[n].ty))

ty_shallow(fields) ==
    LET RECURSIVE F(_)
        F(n) == IF n = 0 THEN Unit ELSE Prod(F(n - 1), RawTy(fields[n].ty))
    IN F(Len(fields))

ty_right(fields) ==
    LET RECURSIVE F(_)
        F(i) == IF i > Len(fields) THEN Unit
                ELSE IF i = Len(fields) THEN ReprOf(fields[i].ty)
                ELSE Prod(ReprOf(fields[i].ty), F(i + 1))
    IN F(1)

\* ty = fields.iter().fold(Unit, |acc, field| Prod<acc, <field.ty as Generic>::Repr>)
ty(fields) == FoldTy(fields, Len(fields))

\* ty_predicates = fields.iter().map(|field| `field.ty : ::generics::Generic`)
ty_predicates(fields) ==
    [i \in 1..Len(fields) |-> Predicate(fields[i].ty, "::generics::Generic")]

self_fields_mut(fields) ==
    [i \in 1..Len(fields) |->
        IF fields[i].ident /= None THEN fields[i].ident[1] ELSE DecStr(Len(fields) - i)]

\* self_fields: the ident of the field, or the literal of its zero-based index
self_fields(fields) ==
    [i \in 1..Len(fields) |->
        IF fields[i].ident /= None THEN fields[i].ident[1] ELSE DecStr(i - 1)]

ordinals_mut(fields) ==
    [i \in 1..Len(fields) |-> UnderscoreStr(0)]

\* ordinals: Ident::new(&format!("_{}", i)) for the i-th field (zero-based)
ordinals(fields) ==
    [i \in 1..Len(fields) |-> UnderscoreStr(i - 1)]

RECURSIVE FoldVars(_, _)
FoldVars(ords, n) ==
    IF n = 0 THEN Unit
    ELSE Prod(FoldVars(ords, n - 1), Var(ords[n]))

\* repr_structure = ordinals.iter().fold(Unit, |acc, ordinal| Prod(acc, ordinal))
repr_structure(ords) == FoldVars(ords, Len(ords))

\* one `let #ordinal = ::generics::Generic::into_repr(#ordinal);` per ordinal
into_conversions(ords) == ords

from_conversions_mut(ords) == <<>>

\* one `let #ordinal = ::generics::Generic::from_repr(#ordinal);` per ordinal
from_conversions(ords) == ords

\* the field patterns / field initialisers `self_field : ordinal`, in field order
FieldBindings(sf, ords) ==
    [i \in 1..Len(sf) |-> [field |-> sf[i], var |-> ords[i]]]

combined_where_clause_mut(where_clause, preds) ==
    preds

\* `where` ty_predicates, then the predicates of the existing where-clause if any
combined_where_clause(where_clause, preds) ==
    IF where_clause /= None THEN preds \o where_clause[1] ELSE preds

\* the impl block handed back to the compiler
ImplTokens(name, generics, fields) ==
    LET sf   == self_fields(fields)
        ords == ordinals(fields)
    IN [name    |-> name,
        params  |-> generics.params,
        where_  |-> combined_where_clause(generics.where_clause, ty_predicates(fields)),
        Repr    |-> ty(fields),
        into    |-> [pat   |-> FieldBindings(sf, ords),
                     convs |-> into_conversions(ords),
                     expr  |-> repr_structure(ords)],
        from    |-> [pat   |-> repr_structure(ords),
                     convs |-> from_conversions(ords),
                     build |-> FieldBindings(sf, ords)]]

\* the message of the panic in the Data::Union arm
UnionMessage == <<"Generic", "cannot", "be", "derived", "for", "unions">>

\* the message of the unimplemented macro in the Data::Enum arm
UnimplementedMessage == <<"not", "yet", "implemented">>

Panicked(msg) == [panic |-> Some(msg), tokens |-> None]

Returned(tokens) == [panic |-> None, tokens |-> Some(tokens)]

generic_macro_derive_mut(di) ==
    IF di.data.shape = "Union" THEN Panicked(UnionMessage)
    ELSE Returned(ImplTokens(di.ident, di.generics,
                             IF di.data.shape = "Struct" THEN di.data.fields ELSE <<>>))

\* pub fn generic_macro_derive(input: TokenStream) -> TokenStream
generic_macro_derive(di) ==
    CASE di.data.shape = "Struct" ->
            Returned(ImplTokens(di.ident, di.generics, di.data.fields))
      [] di.data.shape = "Enum"   -> Panicked(UnimplementedMessage)
      [] di.data.shape = "Union"  -> Panicked(UnionMessage)

(* ------------------------- the types of the crate ---------------------- *)

\* the parsed derive input (syn::DeriveInput): ident, generics, data
DeriveInput(ident, params, where_clause, shape, fields, variants) ==
    [ident    |-> ident,
     generics |-> [params |-> params, where_clause |-> where_clause],
     data     |-> [shape |-> shape, fields |-> fields, variants |-> variants]]

\* struct Two { a: u64, b: u64 }
Two ==
    DeriveInput("Two", <<>>, None, "Struct",
                <<Field(Some("a"), "u64"), Field(Some("b"), "u64")>>, <<>>)

\* struct Four { a: Two, b: Two }
Four ==
    DeriveInput("Four", <<>>, None, "Struct",
                <<Field(Some("a"), "Two"), Field(Some("b"), "Two")>>, <<>>)

\* the derived types other than the one under derivation
Decls == [t \in {"Two", "Four"} |-> IF t = "Two" THEN Two ELSE Four]

\* the type argument the generic struct is used at:  Foo { a: 19u64, b: 23 }
TArg == "u64"

\* a type parameter stands for its argument where the generated code runs
Resolve(t) == IF t = "T" THEN TArg ELSE t

\* the definition of the type named t
Decl(t) ==
    IF input /= None /\ t = input[1].ident THEN input[1] ELSE Decls[t]

\* the impl of Generic for the derived type named t
Impl(t) ==
    IF input /= None /\ t = input[1].ident
    THEN output.tokens[1]
    ELSE generic_macro_derive(Decls[t]).tokens[1]

\* Rust's name of the i-th field of a struct: its ident, or its index
FieldName(fields, i) ==
    IF fields[i].ident /= None THEN fields[i].ident[1] ELSE DecStr(i - 1)

\* the declared type of the field of t that is called acc
FieldTy(t, acc) ==
    LET fields == Decl(t).data.fields
        i      == CHOOSE j \in 1..Len(fields) : FieldName(fields, j) = acc
    IN Resolve(fields[i].ty)

(* ---------------------- running the generated code --------------------- *)

\* the last position of a binding in a list of `field : binding`
LastOf(pat, id) ==
    CHOOSE i \in 1..Len(pat) :
        /\ pat[i].var = id
        /\ \A j \in 1..Len(pat) : pat[j].var = id => j <= i

\* let Self { field : binding, ... } = self;
BindFields(pat, f) ==
    [id \in {pat[i].var : i \in 1..Len(pat)} |-> f[pat[LastOf(pat, id)].field]]

\* Self { field : binding, ... }
BuildFields(build, env) ==
    [acc \in {build[i].field : i \in 1..Len(build)} |->
        env[build[CHOOSE i \in 1..Len(build) : build[i].field = acc].var]]

\* the value of a Unit / Prod expression over bindings
RECURSIVE Eval(_, _)
Eval(expr, env) ==
    CASE expr.k = "Unit" -> Unit
      [] expr.k = "Prod" -> Prod(Eval(expr.a, env), Eval(expr.b, env))
      [] expr.k = "Var"  -> env[expr.id]

\* the bindings of `let <Unit / Prod pattern> = value;` as binding :> value pairs
RECURSIVE Match(_, _)
Match(pat, val) ==
    CASE pat.k = "Unit" -> {}
      [] pat.k = "Prod" -> Match(pat.a, val.a) \cup Match(pat.b, val.b)
      [] pat.k = "Var"  -> {<<pat.id, val>>}

\* the environment after a pattern match
MatchEnv(pat, val) ==
    LET m == Match(pat, val)
    IN [id \in {b[1] : b \in m} |-> (CHOOSE b \in m : b[1] = id)[2]]

RECURSIVE into_repr(_), from_repr(_, _), IntoConvs(_, _, _), FromConvs(_, _, _, _)

\* let ordinal = Generic::into_repr(ordinal);   for the first n conversions
IntoConvs(convs, n, env) ==
    IF n = 0 THEN env
    ELSE LET e == IntoConvs(convs, n - 1, env)
         IN [e EXCEPT ![convs[n]] = into_repr(e[convs[n]])]

\* let ordinal = Generic::from_repr(ordinal);   for the first n conversions;
\* the impl is selected by the type of the field the binding initialises
FromConvs(t, impl, n, env) ==
    IF n = 0 THEN env
    ELSE LET e   == FromConvs(t, impl, n - 1, env)
             id  == impl.from.convs[n]
             fty == FieldTy(t, impl.from.build[LastOf(impl.from.build, id)].field)
         IN [e EXCEPT ![id] = from_repr(fty, e[id])]

\* the body of the generated into_repr, run on self
ExecInto(impl, self) ==
    LET env0 == BindFields(impl.into.pat, self.f)
        env1 == IntoConvs(impl.into.convs, Len(impl.into.convs), env0)
    IN Eval(impl.into.expr, env1)

\* <T as Generic>::into_repr(self), T the type of self
into_repr(self) ==
    IF self.ty \in PrimTypes THEN prim_into_repr(self)
    ELSE ExecInto(Impl(self.ty), self)

\* <T as Generic>::from_repr(repr), T = t
from_repr(t, r) ==
    IF t \in PrimTypes THEN prim_from_repr(r)
    ELSE LET impl == Impl(t)
             env0 == MatchEnv(impl.from.pat, r)
             env1 == FromConvs(t, impl, Len(impl.from.convs), env0)
         IN Struct(t, BuildFields(impl.from.build, env1))

\* the type a type expression denotes once the projections are resolved
RECURSIVE Normalize(_)
Normalize(te) ==
    CASE te.k = "Unit" -> Unit
      [] te.k = "Prod" -> Prod(Normalize(te.a), Normalize(te.b))
      [] te.k = "Ty"   -> te
      [] te.k = "Repr" ->
            IF Resolve(te.of) \in PrimTypes
            THEN prim_Repr(Resolve(te.of))
            ELSE Normalize(Impl(Resolve(te.of)).Repr)

(* ------------------------- the generic summation ----------------------- *)

acc_mut(r) ==
    LET RECURSIVE F(_)
        F(q) == CASE q.k = "Unit" -> 1
                  [] q.k = "Prod" -> F(q.a) + F(q.b)
                  [] q.k = "Prim" -> q.v
    IN F(r)

\* Accumulate::acc for Unit, Prod<A, B> and u64
RECURSIVE acc(_)
acc(r) ==
    CASE r.k = "Unit" -> 0
      [] r.k = "Prod" -> acc(r.a) + acc(r.b)
      [] r.k = "Prim" -> r.v

\* T::Repr: Accumulate holds: every leaf of the representation type is u64
RECURSIVE Accumulates(_)
Accumulates(te) ==
    CASE te.k = "Unit" -> TRUE
      [] te.k = "Prod" -> Accumulates(te.a) /\ Accumulates(te.b)
      [] te.k = "Ty"   -> te.of = "u64"
      [] OTHER         -> FALSE

(* ------------------------------- inputs -------------------------------- *)

\* the types a field of the struct under derivation is declared with
FieldTypes == {"u64", "u8", "T", "Four"}

\* field identifiers: declared names, none (tuple struct), or names that
\* read like the bindings the derive makes up for other fields
Schemes == {"named", "tuple", "underscore"}

FieldIdent(scheme, n, i) ==
    CASE scheme = "named"      -> Some(<<"a", "b", "c", "d", "e", "f">>[i])
      [] scheme = "tuple"      -> None
      [] scheme = "underscore" -> Some(UnderscoreStr(i % n))

\* the struct definitions handed to the derive
StructInputs ==
    UNION {
      { DeriveInput("Foo",
                    IF \E i \in 1..n : tys[i] = "T" THEN <<"T">> ELSE <<>>,
                    IF nw = 0 THEN None
                    ELSE Some([j \in 1..nw |->
                          Predicate(IF \E i \in 1..n : tys[i] = "T" THEN "T" ELSE "u64",
                                    <<"Display", "Copy">>[j])]),
                    "Struct",
                    [i \in 1..n |-> Field(FieldIdent(scheme, n, i), tys[i])],
                    <<>>)
        : tys \in [1..n -> FieldTypes], scheme \in Schemes, nw \in 0..2 }
      : n \in 0..MaxFields }

\* enum definitions, by their variants, and a union definition
OtherInputs ==
    { DeriveInput("Foo", <<>>, None, "Enum", <<>>, vs)
        : vs \in {<<>>, <<"One">>, <<"One", "Two">>} }
    \cup { DeriveInput("Foo", <<>>, None, "Union",
                       <<Field(Some("a"), "u64"), Field(Some("b"), "u8")>>, <<>>) }

\* two values of each type a field can have
Samples(t) ==
    CASE t \in PrimTypes -> <<Prim(t, 19), Prim(t, 23)>>
      [] t = "Two"  -> <<Struct("Two", [a |-> Prim("u64", 18), b |-> Prim("u64", 23)]),
                         Struct("Two", [a |-> Prim("u64", 19), b |-> Prim("u64", 24)])>>
      [] t = "Four" -> <<Struct("Four",
                            [a |-> Struct("Two", [a |-> Prim("u64", 18), b |-> Prim("u64", 23)]),
                             b |-> Struct("Two", [a |-> Prim("u64", 19), b |-> Prim("u64", 24)])]),
                         Struct("Four",
                            [a |-> Struct("Two", [a |-> Prim("u64", 1), b |-> Prim("u64", 2)]),
                             b |-> Struct("Two", [a |-> Prim("u64", 3), b |-> Prim("u64", 4)])])>>

\* the values of the struct di, one sample per field
StructValues(di) ==
    LET fields == di.data.fields
        n      == Len(fields)
    IN { Struct(di.ident,
                [a \in {FieldName(fields, i) : i \in 1..n} |->
                    LET i == CHOOSE j \in 1..n : FieldName(fields, j) = a
                    IN Samples(Resolve(fields[i].ty))[c[i]]])
         : c \in [1..n -> 1..2] }

\* values of a primitive type
PrimValues(t) ==
    {Prim(t, v) : v \in {0, 1, 19, 23, 127} \cup (IF t \in {"i8", "i16", "i32", "i64", "i128"}
                                                  THEN {-1, -128} ELSE {255})}

(* --------------------------- the state machine ------------------------- *)

NoOutput == [panic |-> None, tokens |-> None]

\* a struct, enum or union definition carrying #[derive(Generic)], and a
\* value of the struct
InitDerive ==
    /\ \E di \in StructInputs \cup OtherInputs :
          /\ input = Some(di)
          /\ IF di.data.shape = "Struct"
             THEN \E v \in StructValues(di) : x = Some(v)
             ELSE x = None
    /\ pc = "parsed"
    /\ output = NoOutput
    /\ cur = None /\ repr = None /\ r0 = None /\ sum = None
    /\ trips = 0

\* a value of a registered primitive type
InitPrim ==
    /\ \E t \in PrimTypes : \E v \in PrimValues(t) : x = Some(v)
    /\ input = None
    /\ pc = "self"
    /\ output = NoOutput
    /\ cur = x /\ repr = None /\ r0 = None /\ sum = None
    /\ trips = 0

Init == InitDerive \/ InitPrim

\* the compiler expands the derive
Derive ==
    /\ pc = "parsed"
    /\ output' = generic_macro_derive(input[1])
    /\ pc' = IF output'.panic /= None THEN "panicked" ELSE "self"
    /\ cur' = IF output'.panic /= None THEN None ELSE x
    /\ UNCHANGED <<input, x, repr, r0, trips, sum>>

\* Generic::into_repr(cur)
IntoRepr ==
    /\ pc = "self"
    /\ repr' = Some(into_repr(cur[1]))
    /\ r0' = IF r0 = None THEN repr' ELSE r0
    /\ pc' = "repr"
    /\ UNCHANGED <<input, output, x, cur, trips, sum>>

\* <Self as Generic>::from_repr(repr)
FromRepr ==
    /\ pc = "repr"
    /\ trips < MaxTrips
    /\ cur' = Some(from_repr(x[1].ty, repr[1]))
    /\ trips' = trips + 1
    /\ pc' = "self"
    /\ UNCHANGED <<input, output, x, repr, r0, sum>>

\* the type of the representation of the value at hand
ReprType ==
    IF input = None THEN prim_Repr(x[1].ty)
    ELSE Normalize(output.tokens[1].Repr)

\* repr.acc()
Accumulate ==
    /\ pc = "repr"
    /\ sum = None
    /\ Accumulates(ReprType)
    /\ sum' = Some(acc(repr[1]))
    /\ UNCHANGED <<input, output, pc, x, cur, repr, r0, trips>>

Next == Derive \/ IntoRepr \/ FromRepr \/ Accumulate

Spec == Init /\ [][Next]_vars

(* ------------------------ vocabulary of the laws ----------------------- *)

\* the derive has returned an impl for a struct
Derived == input /= None /\ output.tokens /= None

\* the derive was run on a struct and its impl is in use
StructRun == Derived /\ input[1].data.shape = "Struct"

TheFields == input[1].data.fields

TheImpl == output.tokens[1]

\* the right-hand children along the left spine of a tree, innermost first
RECURSIVE Leaves(_)
Leaves(t) == IF t.k = "Prod" THEN Append(Leaves(t.a), t.b) ELSE <<>>

\* t is n Prod applications nested on the left over Unit
RECURSIVE LeftNested(_, _)
LeftNested(t, n) ==
    IF n = 0 THEN t = Unit
    ELSE t.k = "Prod" /\ LeftNested(t.a, n - 1)

\* a tree of Unit and Prod nodes whose leaves are registered primitives
RECURSIVE ClosedType(_)
ClosedType(t) ==
    CASE t.k = "Unit" -> TRUE
      [] t.k = "Prod" -> ClosedType(t.a) /\ ClosedType(t.b)
      [] t.k = "Ty"   -> t.of \in PrimTypes
      [] OTHER        -> FALSE

\* a value made of Unit, Prod and primitive values only
RECURSIVE ClosedValue(_)
ClosedValue(v) ==
    CASE v.k = "Unit" -> TRUE
      [] v.k = "Prod" -> ClosedValue(v.a) /\ ClosedValue(v.b)
      [] v.k = "Prim" -> v.ty \in PrimTypes
      [] OTHER        -> FALSE

\* the sum of the primitive fields of a value, at every depth
RECURSIVE SumFields(_), SumOver(_, _)
SumFields(v) ==
    IF v.k = "Prim" THEN v.v ELSE SumOver(v.f, DOMAIN v.f)

SumOver(f, S) ==
    IF S = {} THEN 0
    ELSE LET a == CHOOSE b \in S : TRUE
         IN SumFields(f[a]) + SumOver(f, S \ {a})

\* some field of the struct under derivation is declared with type t
HasFieldOf(t) == \E i \in 1..Len(TheFields) : TheFields[i].ty = t

(* -------------------------------- C1 ----------------------------------- *)

\* C1: round trip: from_repr(into_repr(x)) equals x, and for the
\* representation r that into_repr produced, into_repr(from_repr(r)) equals r
C1_RoundTrip ==
    /\ (pc = "self" /\ trips > 0) => cur = x
    /\ (pc = "repr" /\ trips > 0) => repr = r0

\* a struct with a nested struct field and a primitive field has been taken
\* to its representation, back, and to its representation again
C1_Witness ==
    /\ StructRun /\ pc = "repr" /\ trips > 0
    /\ Len(TheFields) >= 2
    /\ HasFieldOf("Four") /\ HasFieldOf("u8")

(* -------------------------------- C2 ----------------------------------- *)

\* C2: shape law: the Repr of a struct with N fields is Unit for N = 0 and
\* otherwise N Prod applications nested on the left over Unit, the k-th leaf
\* being the one of the k-th declared field
C2_Shape ==
    StructRun =>
        /\ LeftNested(TheImpl.Repr, Len(TheFields))
        /\ (Len(TheFields) = 0 => TheImpl.Repr = Unit)
        /\ Len(Leaves(TheImpl.Repr)) = Len(TheFields)
        /\ \A i \in 1..Len(TheFields) :
              Leaves(TheImpl.Repr)[i].of = TheFields[i].ty

\* a struct of at least two fields of different types has been derived
C2_Witness ==
    /\ StructRun
    /\ Len(TheFields) >= 2
    /\ TheFields[1].ty /= TheFields[2].ty

(* -------------------------------- C6 ----------------------------------- *)

\* C6: the derive on an enum (of any number of variants) or on a union
\* fails and returns no impl at all
C6_Rejected ==
    (input /= None /\ input[1].data.shape \in {"Enum", "Union"} /\ pc /= "parsed") =>
        /\ pc = "panicked"
        /\ output.panic /= None
        /\ output.tokens = None

\* the derive has run on an enum without variants
C6_Witness ==
    /\ input /= None /\ pc = "panicked"
    /\ input[1].data.shape = "Enum"
    /\ input[1].data.variants = <<>>

(* -------------------------------- C7 ----------------------------------- *)

\* the words that name a shape in a message
ShapeWords(shape) ==
    IF shape = "Enum" THEN {"enum", "enums"} ELSE {"union", "unions"}

\* C7: when the derive is rejected, the message names the offending type
\* and the unsupported shape
C7_MessageNamesTypeAndShape ==
    pc = "panicked" =>
        /\ input[1].ident \in Range(output.panic[1])
        /\ ShapeWords(input[1].data.shape) \cap Range(output.panic[1]) /= {}

(* -------------------------------- C3 ----------------------------------- *)

\* C3: recursive mode: every leaf of the derived Repr is the Repr of the
\* field's type, into_repr and from_repr convert every field with the
\* field's own into_repr / from_repr, and the representation of a nested
\* struct is made of Unit, Prod and registered primitives only
C3_RecursiveMode ==
    StructRun =>
        /\ \A i \in 1..Len(Leaves(TheImpl.Repr)) : Leaves(TheImpl.Repr)[i].k = "Repr"
        /\ ClosedType(Normalize(TheImpl.Repr))
        /\ Range(TheImpl.into.convs) = {TheImpl.into.pat[i].var : i \in 1..Len(TheFields)}
        /\ Range(TheImpl.from.convs) = {TheImpl.from.build[i].var : i \in 1..Len(TheFields)}
        /\ pc = "repr" => ClosedValue(repr[1])

\* a struct with a field that is a struct of structs has been taken to its
\* representation
C3_Witness ==
    /\ StructRun /\ pc = "repr"
    /\ HasFieldOf("Four")
    /\ Len(TheFields) >= 2

(* -------------------------------- C4 ----------------------------------- *)

\* the obligation `field type : Generic` of the i-th field
Obligation(i) == Predicate(TheFields[i].ty, "::generics::Generic")

\* C4: the where-clause of the impl holds the obligation of every field and
\* every predicate of the where-clause of the type, unchanged; without a
\* where-clause on the type it is exactly the obligations of the fields
C4_WhereClause ==
    StructRun =>
        LET existing == input[1].generics.where_clause
        IN /\ \A i \in 1..Len(TheFields) : Obligation(i) \in Range(TheImpl.where_)
           /\ existing /= None =>
                 /\ \A p \in Range(existing[1]) : p \in Range(TheImpl.where_)
                 /\ Len(TheImpl.where_) = Len(TheFields) + Len(existing[1])
           /\ existing = None =>
                 TheImpl.where_ = [i \in 1..Len(TheFields) |-> Obligation(i)]

\* a generic struct with two predicates in its where-clause has been derived
C4_Witness ==
    /\ StructRun
    /\ Len(TheFields) >= 2
    /\ HasFieldOf("T")
    /\ input[1].generics.where_clause /= None
    /\ Len(input[1].generics.where_clause[1]) = 2

(* -------------------------------- C5 ----------------------------------- *)

\* the name of the integer type of a signedness and a width
IntegerName(signed, width) ==
    CASE width = 8   -> IF signed THEN "i8" ELSE "u8"
      [] width = 16  -> IF signed THEN "i16" ELSE "u16"
      [] width = 32  -> IF signed THEN "i32" ELSE "u32"
      [] width = 64  -> IF signed THEN "i64" ELSE "u64"
      [] width = 128 -> IF signed THEN "i128" ELSE "u128"

\* C5: every signed and unsigned integer width is registered, the Repr of a
\* registered primitive is the primitive itself, and into_repr and from_repr
\* return their argument
C5_PrimitiveLeaf ==
    /\ \A signed \in BOOLEAN : \A width \in {8, 16, 32, 64, 128} :
          IntegerName(signed, width) \in PrimTypes
    /\ input = None =>
          /\ x[1].ty \in PrimTypes
          /\ ReprType = RawTy(x[1].ty)
          /\ pc = "repr" => repr = x
          /\ pc = "self" => cur = x

\* a non-zero i128 has been taken to its representation and back
C5_Witness ==
    /\ input = None
    /\ x[1].ty = "i128" /\ x[1].v = -128
    /\ pc = "self" /\ trips > 0

(* -------------------------------- C8 ----------------------------------- *)

\* C8: folding the representation with acc(Unit) = 0, acc(Prod(a, b)) =
\* acc(a) + acc(b), acc(u64 v) = v gives the sum of the primitive fields of
\* the value at every depth
C8_Summation ==
    sum /= None => sum[1] = SumFields(x[1])

\* the sum of a struct with a nested field and a generic field was taken
C8_Witness ==
    /\ StructRun /\ sum /= None
    /\ HasFieldOf("Four") /\ HasFieldOf("T")
    /\ sum[1] > 0

(* -------------------------------- C9 ----------------------------------- *)

\* the struct under derivation with the positional fields given names
NamedInput ==
    [input[1] EXCEPT !.data.fields =
        [i \in 1..Len(@) |-> Field(FieldIdent("named", Len(@), i), @[i].ty)]]

\* the value of the tuple struct as a value of the struct with named fields
NamedValue(v) ==
    LET nf == NamedInput.data.fields
    IN Struct(v.ty,
              [a \in {FieldName(nf, i) : i \in 1..Len(nf)} |->
                  v.f[FieldName(TheFields,
                                CHOOSE i \in 1..Len(nf) : FieldName(nf, i) = a)]])

IsTuple == \A i \in 1..Len(TheFields) : TheFields[i].ident = None

\* C9: the accessor of the k-th field is its name, or its zero-based index;
\* destructuring, fold and reconstruction use the same sequence; the k-th
\* leaf of into_repr(x) is the into_repr of the k-th declared field and
\* from_repr gives the from_repr of the k-th leaf to the k-th field; a tuple
\* struct has the representation of the struct with named fields
C9_FieldOrder ==
    StructRun =>
        LET n == Len(TheFields)
        IN /\ Len(TheImpl.into.pat) = n
           /\ \A k \in 1..n : TheImpl.into.pat[k].field = FieldName(TheFields, k)
           /\ TheImpl.from.build = TheImpl.into.pat
           /\ TheImpl.from.pat = TheImpl.into.expr
           /\ Leaves(TheImpl.into.expr) = [k \in 1..n |-> Var(TheImpl.into.pat[k].var)]
           /\ pc = "repr" =>
                 /\ Len(Leaves(repr[1])) = n
                 /\ \A k \in 1..n :
                       Leaves(repr[1])[k] = into_repr(cur[1].f[FieldName(TheFields, k)])
                 /\ IsTuple =>
                       repr[1] = ExecInto(generic_macro_derive(NamedInput).tokens[1],
                                          NamedValue(cur[1]))
           /\ (pc = "self" /\ trips > 0) =>
                 \A k \in 1..n :
                    cur[1].f[FieldName(TheFields, k)] =
                        from_repr(Resolve(TheFields[k].ty), Leaves(repr[1])[k])

\* a tuple struct whose first two fields differ has been rebuilt from its
\* representation
C9_Witness ==
    /\ StructRun /\ pc = "self" /\ trips > 0
    /\ Len(TheFields) >= 2
    /\ IsTuple
    /\ x[1].f["0"] /= x[1].f["1"]

(* -------------------------------- C10 ---------------------------------- *)

\* the field k is named like the binding of another field
NamedLikeBinding(k) ==
    \E j \in 1..Len(TheFields) :
        j /= k /\ FieldName(TheFields, k) = TheImpl.into.pat[j].var

\* C10: the k-th field gets the one binding _k (zero-based), the bindings
\* are pairwise distinct, and a field named like the binding of another
\* field still gives its value to its own leaf and gets it back
C10_FreshBindings ==
    StructRun =>
        LET n == Len(TheFields)
        IN /\ Len(TheImpl.into.pat) = n /\ Len(TheImpl.from.build) = n
           /\ \A k \in 1..n :
                 /\ TheImpl.into.pat[k].var = UnderscoreStr(k - 1)
                 /\ TheImpl.from.build[k].var = UnderscoreStr(k - 1)
           /\ \A j, k \in 1..n :
                 j /= k => TheImpl.into.pat[j].var /= TheImpl.into.pat[k].var
           /\ \A k \in 1..n :
                 NamedLikeBinding(k) =>
                    /\ pc = "repr" =>
                          Leaves(repr[1])[k] = into_repr(x[1].f[FieldName(TheFields, k)])
                    /\ (pc = "self" /\ trips > 0) =>
                          cur[1].f[FieldName(TheFields, k)] = x[1].f[FieldName(TheFields, k)]

\* a struct whose fields are named _1, _0 in that order, with different
\* values, has been rebuilt from its representation
C10_Witness ==
    /\ StructRun /\ pc = "self" /\ trips > 0
    /\ Len(TheFields) = 2
    /\ TheFields[1].ident = Some("_1") /\ TheFields[2].ident = Some("_0")
    /\ x[1].f["_1"] /= x[1].f["_0"]

====
